---- MODULE Spec2Model ----
(***************************************************************************)
(* Model of src/lib/storage.ts: the Firebase Storage helpers uploadImage,  *)
(* deleteImage, getTattooImagePath and getGeneratedTattooImagePath.        *)
(*                                                                         *)
(* A JavaScript string is a sequence of one-character strings, so that     *)
(* split, decodeURIComponent, URL parsing and template literals are        *)
(* computed character by character.                                        *)
(***************************************************************************)
EXTENDS Integers, Sequences, FiniteSets, TLC

VARIABLES now, pathCall, del, up, store

vars == <<now, pathCall, del, up, store>>

(***************************************************************************)
(* Bounds.                                                                 *)
(***************************************************************************)
\* longest userId / tattooId handed to a path builder
MaxIdLen == 2
\* longest fileName handed to getTattooImagePath
MaxNameLen == 3

\* characters of identifiers: a digit, and the three separators of the key format
IdChars == {"1", "/", "_", "."}
\* characters of file names
NameChars == {"p", "."}
\* the values Date.now() takes, in increasing order of time
Times == {1, 2, 12}

SeqsUpTo(S, n) == UNION {[1..k -> S] : k \in 0..n}

Ids == SeqsUpTo(IdChars, MaxIdLen)
FileNames == SeqsUpTo(NameChars, MaxNameLen)

(***************************************************************************)
(* JavaScript string and array primitives used by the source.              *)
(***************************************************************************)
\* the value undefined, different from every string
Undefined == <<"<undefined>">>

\* String.prototype.indexOf, 1-based; 0 when sub does not occur in s
IndexOf(s, sub) ==
  LET hits == {i \in 1..(Len(s) - Len(sub) + 1) : SubSeq(s, i, i + Len(sub) - 1) = sub}
  IN  IF hits = {} THEN 0 ELSE CHOOSE i \in hits : \A j \in hits : i <= j

\* String.prototype.split with a non-empty separator: the array of pieces
RECURSIVE Split(_, _)
Split(s, sep) ==
  LET i == IndexOf(s, sep)
  IN  IF i = 0 THEN <<s>>
      ELSE <<SubSeq(s, 1, i - 1)>> \o Split(SubSeq(s, i + Len(sep), Len(s)), sep)

\* mutant of Pop: nothing to pop when the separator never occurred
PopOnlyAfterSeparator(a) == IF Len(a) <= 1 THEN Undefined ELSE a[Len(a)]

\* Array.prototype.pop's return value: the last element, undefined for []
Pop(a) == IF Len(a) = 0 THEN Undefined ELSE a[Len(a)]

\* a[i] with JavaScript's 0-based index: undefined past the end
ArrayAt(a, i) == IF i + 1 <= Len(a) THEN a[i + 1] ELSE Undefined

\* Number.prototype.toString for a non-negative integer
RECURSIVE NumberToString(_)
NumberToString(n) ==
  LET d == <<"0", "1", "2", "3", "4", "5", "6", "7", "8", "9">>[(n % 10) + 1]
  IN  IF n < 10 THEN <<d>> ELSE NumberToString(n \div 10) \o <<d>>

\* ${v} in a template literal: undefined prints as the word undefined
TemplateString(v) ==
  IF v = Undefined THEN <<"u", "n", "d", "e", "f", "i", "n", "e", "d">> ELSE v

(***************************************************************************)
(* getTattooImagePath and getGeneratedTattooImagePath.                     *)
(***************************************************************************)
TattoosPrefix == <<"t", "a", "t", "t", "o", "o", "s", "/">>
GeneratedPrefix == <<"g", "e", "n", "e", "r", "a", "t", "e", "d", "_">> \o TattoosPrefix
PngSuffix == <<".", "p", "n", "g">>

\* mutant of Extension: the piece after the first '.', fileName.split('.')[1]
ExtensionSecondPiece(fileName) == ArrayAt(Split(fileName, <<".">>), 1)

\* const extension = fileName.split('.').pop()
Extension(fileName) == Pop(Split(fileName, <<".">>))

\* `tattoos/${userId}/${tattooId}_${timestamp}.${extension}`
getTattooImagePath(userId, tattooId, fileName, timestamp) ==
  TattoosPrefix \o userId \o <<"/">> \o tattooId \o <<"_">>
    \o NumberToString(timestamp) \o <<".">> \o TemplateString(Extension(fileName))

\* mutant of getGeneratedTattooImagePath: no '_' between tattooId and timestamp
getGeneratedTattooImagePathNoSeparator(userId, tattooId, timestamp) ==
  GeneratedPrefix \o userId \o <<"/">> \o tattooId
    \o NumberToString(timestamp) \o PngSuffix

\* `generated_tattoos/${userId}/${tattooId}_${timestamp}.png`
getGeneratedTattooImagePath(userId, tattooId, timestamp) ==
  GeneratedPrefix \o userId \o <<"/">> \o tattooId \o <<"_">>
    \o NumberToString(timestamp) \o PngSuffix

NoPathCall ==
  [fn |-> "none", userId |-> <<>>, tattooId |-> <<>>, fileName |-> <<>>,
   timestamp |-> 0, result |-> <<>>, calls |-> <<>>]

\* time passes: Date.now() never goes back
Tick == /\ \E t \in Times : t > now /\ now' = t
        /\ UNCHANGED <<pathCall, del, up, store>>

\* a caller invokes getTattooImagePath(userId, tattooId, fileName)
CallGetTattooImagePath ==
  /\ pathCall.fn = "none"
  /\ \E userId \in Ids, tattooId \in Ids, fileName \in FileNames :
       pathCall' = [fn |-> "getTattooImagePath", userId |-> userId,
                    tattooId |-> tattooId, fileName |-> fileName,
                    timestamp |-> now,
                    result |-> getTattooImagePath(userId, tattooId, fileName, now),
                    calls |-> <<>>]
  /\ UNCHANGED <<now, del, up, store>>

\* a caller invokes getGeneratedTattooImagePath(userId, tattooId)
CallGetGeneratedTattooImagePath ==
  /\ pathCall.fn = "none"
  /\ \E userId \in Ids, tattooId \in Ids :
       pathCall' = [fn |-> "getGeneratedTattooImagePath", userId |-> userId,
                    tattooId |-> tattooId, fileName |-> <<>>,
                    timestamp |-> now,
                    result |-> getGeneratedTattooImagePath(userId, tattooId, now),
                    calls |-> <<>>]
  /\ UNCHANGED <<now, del, up, store>>

NoDelete == [pc |-> "idle"]
NoUploads == <<>>
EmptyStore == <<>>

InitPath ==
  /\ now = 1
  /\ pathCall = NoPathCall
  /\ del = NoDelete
  /\ up = NoUploads
  /\ store = EmptyStore

NextPath == Tick \/ CallGetTattooImagePath \/ CallGetGeneratedTattooImagePath

SpecPath == InitPath /\ [][NextPath]_vars

(***************************************************************************)
(* URLs.  A URL string starts with one token standing for its scheme and   *)
(* authority ("https://host"), followed by the characters of its path and  *)
(* query; a string that does not start with that token has no scheme.      *)
(***************************************************************************)
Origin == "https://host"

\* what a throwing conversion yields instead of a string
Thrown == <<"<thrown>">>

\* the characters with codes 32..126, in code order (code 96 as a token)
Printable ==
  <<" ", "!", "\"", "#", "$", "%", "&", "'", "(", ")", "*", "+", ",", "-", ".", "/",
    "0", "1", "2", "3", "4", "5", "6", "7", "8", "9", ":", ";", "<", "=", ">", "?",
    "@", "A", "B", "C", "D", "E", "F", "G", "H", "I", "J", "K", "L", "M", "N", "O",
    "P", "Q", "R", "S", "T", "U", "V", "W", "X", "Y", "Z", "[", "\\", "]", "^", "_",
    "<grave>", "a", "b", "c", "d", "e", "f", "g", "h", "i", "j", "k", "l", "m", "n", "o",
    "p", "q", "r", "s", "t", "u", "v", "w", "x", "y", "z", "{", "|", "}", "~">>

\* String.fromCharCode for a code below 128; a control character is a token
CharOfCode(b) ==
  IF b >= 32 /\ b <= 126 THEN Printable[b - 31] ELSE <<"<ctrl>", b>>

\* charCodeAt for a printable ASCII character
CodeOfChar(c) == 31 + (CHOOSE i \in 1..Len(Printable) : Printable[i] = c)

HexUpper == <<"0", "1", "2", "3", "4", "5", "6", "7", "8", "9", "A", "B", "C", "D", "E", "F">>
HexLower == <<"0", "1", "2", "3", "4", "5", "6", "7", "8", "9", "a", "b", "c", "d", "e", "f">>

IsHexDigit(c) == \E i \in 1..16 : HexUpper[i] = c \/ HexLower[i] = c
HexValue(c) == (CHOOSE i \in 1..16 : HexUpper[i] = c \/ HexLower[i] = c) - 1

\* decodeURIComponent: %XX becomes the character with code XX; a '%' not
\* followed by two hex digits throws URIError, and so does a byte of 0x80 or
\* above that is not part of a well-formed UTF-8 sequence (no continuation
\* byte %80..%BF can follow it in the strings of this model).
RECURSIVE decodeURIComponent(_)
decodeURIComponent(s) ==
  IF s = <<>> THEN <<>>
  ELSE IF s[1] # "%"
  THEN LET rest == decodeURIComponent(Tail(s))
       IN  IF rest = Thrown THEN Thrown ELSE <<s[1]>> \o rest
  ELSE IF Len(s) < 3 \/ ~IsHexDigit(s[2]) \/ ~IsHexDigit(s[3]) THEN Thrown
  ELSE LET b    == 16 * HexValue(s[2]) + HexValue(s[3])
           rest == decodeURIComponent(SubSeq(s, 4, Len(s)))
       IN  IF b >= 128 \/ rest = Thrown THEN Thrown ELSE <<CharOfCode(b)>> \o rest

RECURSIVE Join(_, _)
Join(pieces, sep) ==
  IF Len(pieces) = 0 THEN <<>>
  ELSE IF Len(pieces) = 1 THEN pieces[1]
  ELSE pieces[1] \o sep \o Join(Tail(pieces), sep)

\* The URL parser's path state: "." segments are dropped, ".." segments drop
\* the segment before them, and either one as the last segment leaves an
\* empty last segment.
RECURSIVE RemoveDotSegments(_, _, _)
RemoveDotSegments(segs, i, acc) ==
  IF i > Len(segs) THEN acc
  ELSE LET last  == IF i = Len(segs) THEN <<<<>>>> ELSE <<>>
           next  == IF segs[i] = <<".", ".">>
                    THEN SubSeq(acc, 1, Len(acc) - 1) \o last
                    ELSE IF segs[i] = <<".">> THEN acc \o last
                    ELSE Append(acc, segs[i])
       IN  RemoveDotSegments(segs, i + 1, next)

\* new URL(imageUrl).pathname: TypeError (Thrown) for a string without a
\* scheme; otherwise the path, which ends at the first '?', with its dot
\* segments removed; the empty path reads "/".  The characters of this model
\* are none of those the parser percent-encodes or strips.
UrlPathname(imageUrl) ==
  IF imageUrl = <<>> \/ imageUrl[1] # Origin THEN Thrown
  ELSE LET rest == Tail(imageUrl)
           q    == IndexOf(rest, <<"?">>)
           path == IF q = 0 THEN rest ELSE SubSeq(rest, 1, q - 1)
           segs == Split(SubSeq(path, 2, Len(path)), <<"/">>)
       IN  <<"/">> \o Join(RemoveDotSegments(segs, 1, <<>>), <<"/">>)

(***************************************************************************)
(* deleteImage.                                                            *)
(***************************************************************************)
\* mutant of ObjectPath: no `|| ''` fallback, so that a missing segment is
\* decoded as decodeURIComponent(undefined), the string "undefined"
ObjectPathNoFallback(pathname) ==
  LET seg == ArrayAt(Split(pathname, <<"/", "o", "/">>), 1)
      cut == IF seg = Undefined THEN Undefined ELSE ArrayAt(Split(seg, <<"?">>), 0)
  IN  decodeURIComponent(TemplateString(cut))

\* decodeURIComponent(url.pathname.split('/o/')[1]?.split('?')[0] || '')
ObjectPath(pathname) ==
  LET seg == ArrayAt(Split(pathname, <<"/", "o", "/">>), 1)
      cut == IF seg = Undefined THEN Undefined ELSE ArrayAt(Split(seg, <<"?">>), 0)
  IN  decodeURIComponent(IF cut = Undefined \/ cut = <<>> THEN <<>> ELSE cut)

NotFound == "storage/object-not-found"

\* what a store delete can answer
DeleteOutcomes == {"ok", NotFound, "storage/unauthorized", "storage/retry-limit-exceeded"}

TypeError == [name |-> "TypeError", code |-> "none"]
URIError == [name |-> "URIError", code |-> "none"]
StorageError(code) == [name |-> "FirebaseError", code |-> code]

\* mutant of Catch: an error other than not-found is logged and thrown again
CatchRethrow(d, error) ==
  IF error.code = NotFound
  THEN [d EXCEPT !.pc = "done", !.result = "resolved"]
  ELSE [d EXCEPT !.pc = "done", !.result = "rejected", !.diag = Append(@, error)]

\* mutant of Catch: every error is logged, not-found too
CatchLogsAll(d, error) ==
  [d EXCEPT !.pc = "done", !.result = "resolved", !.diag = Append(@, error)]

\* the catch block: not-found returns at once, any other error is logged
\* with console.error, and the function returns normally either way
Catch(d, error) ==
  IF error.code = NotFound
  THEN [d EXCEPT !.pc = "done", !.result = "resolved"]
  ELSE [d EXCEPT !.pc = "done", !.result = "resolved", !.diag = Append(@, error)]

\* deleteImage up to its await: parse the URL, extract and decode the path,
\* and call deleteObject when the path is not empty
DeleteImageBody(d) ==
  LET pathname == UrlPathname(d.imageUrl)
      path     == IF pathname = Thrown THEN Thrown ELSE ObjectPath(pathname)
  IN  IF pathname = Thrown THEN Catch(d, TypeError)
      ELSE IF path = Thrown THEN Catch(d, URIError)
      ELSE IF path # <<>>
      THEN [d EXCEPT !.pc = "awaitDelete",
                     !.calls = Append(@, [op |-> "deleteObject", path |-> path])]
      ELSE [d EXCEPT !.pc = "done", !.result = "resolved"]

NewDelete(imageUrl, issuedFor) ==
  [pc |-> "called", imageUrl |-> imageUrl, issuedFor |-> issuedFor,
   calls |-> <<>>, diag |-> <<>>, outcome |-> "none", result |-> "pending"]

\* longest text after the head of a URL that the store did not issue
MaxTailLen == 3
\* longest storage key a download URL is issued for
MaxKeyLen == 3

UrlChars == {"k", "o", "/", "?", "%", ".", "2", "F"}
KeyChars == {"k", "o", "/", "?", "%", " ", "."}

UrlTails == SeqsUpTo(UrlChars, MaxTailLen)
Keys == SeqsUpTo(KeyChars, MaxKeyLen) \ {<<>>}

\* what follows the scheme and authority: nothing, a path, or a query
UrlRests ==
  {<<>>} \cup {h \o t : h \in {<<"/">>, <<"/", "o", "/">>, <<"?">>}, t \in UrlTails}

\* the strings handed to deleteImage that the store did not issue
ForeignUrls == UrlRests \cup {<<Origin>> \o r : r \in UrlRests}

\* encodeURIComponent: every character but A-Z a-z 0-9 - _ . ! ~ * ' ( )
\* becomes %XX
Unreserved == {"-", "_", ".", "!", "~", "*", "'", "(", ")"}

RECURSIVE encodeURIComponent(_)
encodeURIComponent(s) ==
  IF s = <<>> THEN <<>>
  ELSE LET c == s[1]
           b == CodeOfChar(c)
           keep == \/ c \in Unreserved
                   \/ (b >= 48 /\ b <= 57) \/ (b >= 65 /\ b <= 90) \/ (b >= 97 /\ b <= 122)
       IN  (IF keep THEN <<c>> ELSE <<"%", HexUpper[(b \div 16) + 1], HexUpper[(b % 16) + 1]>>)
             \o encodeURIComponent(Tail(s))

\* the query strings a download URL ends with
Queries == {<<>>, <<"?", "k">>, <<"?", "/", "o", "/", "k">>}

\* the download URL the store issues for a key: the key percent-encoded
\* after the '/o/' marker of the path, then the query string
DownloadURL(key, query) ==
  <<Origin, "/", "v", "0", "/", "b", "/", "k", "/", "o", "/">>
    \o encodeURIComponent(key) \o query

\* a caller invokes deleteImage with a string the store did not issue
DeleteImageOfForeignUrl ==
  /\ del.pc = "idle"
  /\ \E imageUrl \in ForeignUrls : del' = DeleteImageBody(NewDelete(imageUrl, Undefined))
  /\ UNCHANGED <<now, pathCall, up, store>>

\* a caller invokes deleteImage with the download URL issued for a key
DeleteImageOfIssuedUrl ==
  /\ del.pc = "idle"
  /\ \E key \in Keys, query \in Queries :
       del' = DeleteImageBody(NewDelete(DownloadURL(key, query), key))
  /\ UNCHANGED <<now, pathCall, up, store>>

\* `await deleteObject(storageRef)` settles: on "ok" the function returns,
\* on an error the catch block runs
DeleteObjectSettles ==
  /\ del.pc = "awaitDelete"
  /\ \E outcome \in DeleteOutcomes :
       LET d == [del EXCEPT !.outcome = outcome]
       IN  del' = IF outcome = "ok"
                  THEN [d EXCEPT !.pc = "done", !.result = "resolved"]
                  ELSE Catch(d, StorageError(outcome))
  /\ UNCHANGED <<now, pathCall, up, store>>

InitDelete ==
  /\ now = 1
  /\ pathCall = NoPathCall
  /\ del = NoDelete
  /\ up = NoUploads
  /\ store = EmptyStore

NextDelete == DeleteImageOfForeignUrl \/ DeleteImageOfIssuedUrl \/ DeleteObjectSettles

SpecDelete == InitDelete /\ [][NextDelete]_vars

(***************************************************************************)
(* uploadImage, called by concurrent callers.  Each caller uploads a File  *)
(* of its own, to the path a path builder returns for its arguments; the   *)
(* store maps a key to the caller whose File it holds.                     *)
(***************************************************************************)
Callers == {"c1", "c2"}

UploadUserIds == {<<"1">>, <<"1", "/", "1">>}
UploadTattooIds == {<<"1">>, <<"1", "/", "1">>}
UploadFileNames == {<<"p", ".", "j">>, <<"q", ".", "j">>}

\* what the store can answer to uploadBytes and to getDownloadURL
PutOutcomes == {"ok", "storage/unauthorized"}
UrlOutcomes == {"ok", "storage/retry-limit-exceeded"}

\* the query string of the URLs the store resolves
TokenQuery == <<"?", "k">>

NoError == [name |-> "none", code |-> "none"]

IdleUpload ==
  [pc |-> "idle", fn |-> "none", userId |-> <<>>, tattooId |-> <<>>,
   fileName |-> <<>>, timestamp |-> 0, path |-> <<>>, calls |-> <<>>,
   putOutcome |-> "none", urlOutcome |-> "none", storeUrl |-> <<>>,
   result |-> [status |-> "pending", value |-> <<>>, error |-> NoError]]

\* mutant of BuilderPath: the user-image key carries no timestamp
BuilderPathNoTimestamp(fn, userId, tattooId, fileName, timestamp) ==
  IF fn = "getTattooImagePath"
  THEN TattoosPrefix \o userId \o <<"/">> \o tattooId \o <<".">>
         \o TemplateString(Extension(fileName))
  ELSE getGeneratedTattooImagePath(userId, tattooId, timestamp)

\* the path a caller builds: one of the two path builders, at time timestamp
BuilderPath(fn, userId, tattooId, fileName, timestamp) ==
  IF fn = "getTattooImagePath"
  THEN getTattooImagePath(userId, tattooId, fileName, timestamp)
  ELSE getGeneratedTattooImagePath(userId, tattooId, timestamp)

\* A caller builds a path now and calls uploadImage(file, path): the
\* function runs to its first await, with uploadBytes issued for the path.
UploadImageCall(c) ==
  /\ up[c].pc = "idle"
  /\ \E fn \in {"getTattooImagePath", "getGeneratedTattooImagePath"},
        userId \in UploadUserIds, tattooId \in UploadTattooIds,
        fileName \in UploadFileNames \cup {<<>>} :
       LET path == BuilderPath(fn, userId, tattooId, fileName, now)
       IN  /\ (fn = "getGeneratedTattooImagePath") = (fileName = <<>>)
           /\ up' = [up EXCEPT ![c] =
                    [@ EXCEPT !.pc = "awaitPut", !.fn = fn, !.userId = userId,
                              !.tattooId = tattooId, !.fileName = fileName,
                              !.timestamp = now, !.path = path,
                              !.calls = <<[op |-> "uploadBytes", path |-> path]>>]]
  /\ UNCHANGED <<now, pathCall, del, store>>

\* mutant of UploadBytesSettles: a failed write is ignored and the URL is
\* requested all the same
UploadBytesSettlesIgnoringFailure(c) ==
  /\ up[c].pc = "awaitPut"
  /\ \E outcome \in PutOutcomes :
       /\ store' = IF outcome = "ok" THEN (up[c].path :> c) @@ store ELSE store
       /\ up' = [up EXCEPT ![c] =
                   [@ EXCEPT !.pc = "awaitUrl", !.putOutcome = outcome,
                             !.calls = Append(@, [op |-> "getDownloadURL",
                                                  path |-> up[c].path])]]
  /\ UNCHANGED <<now, pathCall, del>>

\* `await uploadBytes(storageRef, file)` settles.  On "ok" the store holds
\* the caller's File at the path and getDownloadURL is called for the same
\* reference; on an error the store is as it was and uploadImage rejects
\* with that error.
UploadBytesSettles(c) ==
  /\ up[c].pc = "awaitPut"
  /\ \E outcome \in PutOutcomes :
       IF outcome = "ok"
       THEN /\ store' = (up[c].path :> c) @@ store
            /\ up' = [up EXCEPT ![c] =
                        [@ EXCEPT !.pc = "awaitUrl", !.putOutcome = outcome,
                                  !.calls = Append(@, [op |-> "getDownloadURL",
                                                       path |-> up[c].path])]]
       ELSE /\ store' = store
            /\ up' = [up EXCEPT ![c] =
                        [@ EXCEPT !.pc = "done", !.putOutcome = outcome,
                                  !.result = [status |-> "rejected", value |-> <<>>,
                                              error |-> StorageError(outcome)]]]
  /\ UNCHANGED <<now, pathCall, del>>

\* mutant of GetDownloadURLSettles: when the URL cannot be resolved the
\* uploaded object is removed again before the error is passed on
GetDownloadURLSettlesWithRollback(c) ==
  /\ up[c].pc = "awaitUrl"
  /\ \E outcome \in UrlOutcomes :
       LET url == DownloadURL(up[c].path, TokenQuery)
       IN  IF outcome = "ok"
           THEN /\ store' = store
                /\ up' = [up EXCEPT ![c] =
                            [@ EXCEPT !.pc = "done", !.urlOutcome = outcome,
                                      !.storeUrl = url,
                                      !.result = [status |-> "resolved", value |-> url,
                                                  error |-> NoError]]]
           ELSE /\ store' = [k \in DOMAIN store \ {up[c].path} |-> store[k]]
                /\ up' = [up EXCEPT ![c] =
                            [@ EXCEPT !.pc = "done", !.urlOutcome = outcome,
                                      !.result = [status |-> "rejected", value |-> <<>>,
                                                  error |-> StorageError(outcome)]]]
  /\ UNCHANGED <<now, pathCall, del>>

\* `await getDownloadURL(storageRef)` settles.  On "ok" uploadImage returns
\* the URL the store resolved; on an error it rejects with that error.  The
\* store is not touched either way.
GetDownloadURLSettles(c) ==
  /\ up[c].pc = "awaitUrl"
  /\ \E outcome \in UrlOutcomes :
       LET url == DownloadURL(up[c].path, TokenQuery)
       IN  up' = [up EXCEPT ![c] =
                    IF outcome = "ok"
                    THEN [@ EXCEPT !.pc = "done", !.urlOutcome = outcome,
                                   !.storeUrl = url,
                                   !.result = [status |-> "resolved", value |-> url,
                                               error |-> NoError]]
                    ELSE [@ EXCEPT !.pc = "done", !.urlOutcome = outcome,
                                   !.result = [status |-> "rejected", value |-> <<>>,
                                               error |-> StorageError(outcome)]]]
  /\ UNCHANGED <<now, pathCall, del, store>>

InitUpload ==
  /\ now = 1
  /\ pathCall = NoPathCall
  /\ del = NoDelete
  /\ up = [c \in Callers |-> IdleUpload]
  /\ store = EmptyStore

NextUpload ==
  \/ Tick
  \/ \E c \in Callers : UploadImageCall(c)
  \/ \E c \in Callers : UploadBytesSettles(c)
  \/ \E c \in Callers : GetDownloadURLSettles(c)

SpecUpload == InitUpload /\ [][NextUpload]_vars

(***************************************************************************)
(* Properties of the path builders, checked under SpecPath.                *)
(***************************************************************************)
Digits == {"0", "1", "2", "3", "4", "5", "6", "7", "8", "9"}

\* the number a string of decimal digits denotes
RECURSIVE DigitsValue(_)
DigitsValue(s) ==
  IF s = <<>> THEN 0
  ELSE 10 * DigitsValue(SubSeq(s, 1, Len(s) - 1))
         + (CHOOSE d \in 0..9 : NumberToString(d) = <<s[Len(s)]>>)

IsDecimal(s) ==
  /\ Len(s) >= 1
  /\ \A i \in 1..Len(s) : s[i] \in Digits
  /\ (Len(s) > 1 => s[1] # "0")

\* 1-based position of the last occurrence of character c in s, 0 when absent
LastIndexOfChar(s, c) ==
  LET hits == {i \in 1..Len(s) : s[i] = c}
  IN  IF hits = {} THEN 0 ELSE CHOOSE i \in hits : \A j \in hits : j <= i

HasChar(s, c) == \E i \in 1..Len(s) : s[i] = c

\* the substring of s after its last '.', all of s when it has none
AfterLastDot(s) == SubSeq(s, LastIndexOfChar(s, ".") + 1, Len(s))

StartsWith(s, p) == Len(s) >= Len(p) /\ SubSeq(s, 1, Len(p)) = p
EndsWith(s, p) == Len(s) >= Len(p) /\ SubSeq(s, Len(s) - Len(p) + 1, Len(s)) = p

\* s is head, then the decimal digits of n, then tail
IsHeadNumberTail(s, head, n, tail) ==
  /\ StartsWith(s, head)
  /\ EndsWith(s, tail)
  /\ Len(s) > Len(head) + Len(tail)
  /\ LET mid == SubSeq(s, Len(head) + 1, Len(s) - Len(tail))
     IN  IsDecimal(mid) /\ DigitsValue(mid) = n

\* C7: getTattooImagePath returns exactly tattoos/<userId>/<tattooId>_<ts>.<ext>,
\* <ts> the decimal digits of the captured Date.now() and <ext> the substring
\* of fileName after its last '.'; it always returns a string and issues no
\* store call.
C7_UserPathFormat ==
  pathCall.fn = "getTattooImagePath" =>
    /\ IsHeadNumberTail(pathCall.result,
         <<"t", "a", "t", "t", "o", "o", "s", "/">> \o pathCall.userId \o <<"/">>
            \o pathCall.tattooId \o <<"_">>,
         pathCall.timestamp,
         <<".">> \o AfterLastDot(pathCall.fileName))
    /\ pathCall.calls = <<>>

\* C7 witness: a call whose fileName has two dots, so that the last one decides
C7_Witness ==
  /\ pathCall.fn = "getTattooImagePath"
  /\ pathCall.fileName = <<".", "p", ".">>
  /\ pathCall.timestamp = 12
  /\ pathCall.userId # <<>> /\ pathCall.tattooId # <<>>

TupleOf(fn, userId, tattooId, timestamp) ==
  <<IF fn = "getTattooImagePath" THEN "tattoos" ELSE "generated_tattoos",
    userId, tattooId, timestamp>>

\* The tuple read back from a key alone: the category is the prefix, userId
\* runs to the first '/', the extension starts at the last '.', the timestamp
\* at the last '_' before it.
KeyTuple(key) ==
  LET cat  == IF StartsWith(key, TattoosPrefix) THEN "tattoos"
              ELSE IF StartsWith(key, GeneratedPrefix) THEN "generated_tattoos"
              ELSE "none"
      pre  == IF cat = "tattoos" THEN Len(TattoosPrefix) ELSE Len(GeneratedPrefix)
      rest == SubSeq(key, pre + 1, Len(key))
      sl   == IndexOf(rest, <<"/">>)
      r2   == SubSeq(rest, sl + 1, Len(rest))
      body == SubSeq(r2, 1, LastIndexOfChar(r2, ".") - 1)
      us   == LastIndexOfChar(body, "_")
      ts   == SubSeq(body, us + 1, Len(body))
  IN  IF cat = "none" \/ sl = 0 \/ us = 0 \/ ~IsDecimal(ts) THEN <<"none">>
      ELSE <<cat, SubSeq(rest, 1, sl - 1), SubSeq(body, 1, us - 1), DigitsValue(ts)>>

\* C9 as claimed: for all identifier strings, a call with a different
\* (category, userId, tattooId, timestamp) tuple never returns the same key
C9_Original_UniqueForAllIds ==
  pathCall.fn # "none" =>
    \A fn \in {"getTattooImagePath", "getGeneratedTattooImagePath"},
       userId \in Ids, tattooId \in Ids, timestamp \in Times :
      TupleOf(fn, userId, tattooId, timestamp)
          # TupleOf(pathCall.fn, pathCall.userId, pathCall.tattooId, pathCall.timestamp)
        => BuilderPath(fn, userId, tattooId, pathCall.fileName, timestamp)
             # pathCall.result

\* C9 amended: when userId contains no '/', the key determines the
\* (category, userId, tattooId, timestamp) tuple (one fixed parse of the key
\* gives the tuple back), so two calls with such userIds and different tuples
\* never return the same key; tattooId may contain '/', '_' or '.'.
C9_KeyDeterminesTuple ==
  (pathCall.fn # "none" /\ ~HasChar(pathCall.userId, "/")) =>
    KeyTuple(pathCall.result)
      = TupleOf(pathCall.fn, pathCall.userId, pathCall.tattooId, pathCall.timestamp)

\* C9 witness: a generated-image key for a slash-free userId and a tattooId
\* made of separators
C9_Witness ==
  /\ pathCall.fn = "getGeneratedTattooImagePath"
  /\ pathCall.userId = <<"_", ".">>
  /\ pathCall.tattooId = <<"/", "_">>
  /\ pathCall.timestamp = 12

(***************************************************************************)
(* Properties of deleteImage, checked under SpecDelete.                    *)
(***************************************************************************)
Marker == <<"/", "o", "/">>

Contains(s, sub) ==
  \E i \in 1..(Len(s) - Len(sub) + 1) : SubSeq(s, i, i + Len(sub) - 1) = sub

\* the string has no scheme: new URL throws
Unparsable(imageUrl) == imageUrl = <<>> \/ imageUrl[1] # Origin

\* the text between the first '/o/' of a pathname and the next one (or the
\* end); empty when there is no '/o/'
MarkerSegment(pathname) ==
  LET i == IndexOf(pathname, Marker)
      r == SubSeq(pathname, i + Len(Marker), Len(pathname))
      j == IndexOf(r, Marker)
  IN  IF i = 0 THEN <<>> ELSE IF j = 0 THEN r ELSE SubSeq(r, 1, j - 1)

\* some '%' of s does not start the %XX of an ASCII character
BadlyEncoded(s) ==
  \E i \in 1..Len(s) :
    /\ s[i] = "%"
    /\ \/ i + 2 > Len(s)
       \/ ~IsHexDigit(s[i + 1]) \/ ~IsHexDigit(s[i + 2])
       \/ HexValue(s[i + 1]) >= 8

\* C1: deleteImage never propagates an error: whatever the input string and
\* whatever the store answers, the call never ends rejected, and when it
\* has ended it has returned normally.
C1_DeleteNeverRejects ==
  del.pc # "idle" =>
    /\ del.pc \in {"awaitDelete", "done"}
    /\ del.result # "rejected"
    /\ (del.pc = "done" <=> del.result = "resolved")

\* C1 witness: the store answered permission denied and the call returned
C1_Witness ==
  /\ del.pc = "done"
  /\ del.outcome = "storage/unauthorized"
  /\ del.result = "resolved"
  /\ del.issuedFor # Undefined

RoundTripExceptDotSegments ==
  (del.pc # "idle" /\ del.issuedFor \notin {Undefined, <<".">>, <<".", ".">>}) =>
    del.calls = <<[op |-> "deleteObject", path |-> del.issuedFor]>>

\* the URL shows no marker segment, or an empty segment after the marker
NoMarkerSegment(imageUrl) ==
  \/ ~Contains(imageUrl, Marker)
  \/ /\ ~Unparsable(imageUrl)
     /\ LET pathname == UrlPathname(imageUrl)
        IN  \/ ~Contains(pathname, Marker)
            \/ IndexOf(pathname, Marker) + Len(Marker) > Len(pathname)

\* C3 as claimed: on a URL with no marker segment deleteImage performs no
\* store call, returns normally and records no diagnostic
C3_Original_SilentNoOp ==
  (del.pc # "idle" /\ NoMarkerSegment(del.imageUrl)) =>
    /\ del.pc = "done" /\ del.result = "resolved"
    /\ del.calls = <<>>
    /\ del.diag = <<>>

\* C3 amended: on a URL with no marker segment (or an empty segment after
\* it) deleteImage performs no store call and returns normally; it records
\* no diagnostic when the string parses as a URL, and exactly one (the
\* TypeError of new URL) when it does not.
C3_NoOpOnMissingSegment ==
  (del.pc # "idle" /\ NoMarkerSegment(del.imageUrl)) =>
    /\ del.pc = "done" /\ del.result = "resolved"
    /\ del.calls = <<>>
    /\ del.diag = IF Unparsable(del.imageUrl) THEN <<TypeError>> ELSE <<>>

\* C3 witness: a URL that parses and whose path ends with the marker
C3_Witness ==
  /\ del.pc = "done"
  /\ del.imageUrl = <<Origin, "/", "o", "/", "?", "k">>
  /\ del.calls = <<>>

\* the store's delete was requested and failed with something but not-found
StoreFailedOtherwise == del.outcome \in DeleteOutcomes \ {"ok", NotFound}

\* C4 as claimed: a diagnostic is recorded exactly when the store's delete
\* fails with an outcome other than not-found
C4_Original_DiagnosticIffStoreFailure ==
  del.pc = "done" =>
    /\ Len(del.diag) <= 1
    /\ (Len(del.diag) = 1 <=> StoreFailedOtherwise)

\* C4 amended: when deleteImage has returned, it has recorded exactly one
\* diagnostic if the store's delete failed with an outcome other than
\* not-found, or if no delete was requested because new URL threw (a string
\* without a scheme) or decodeURIComponent threw (a segment that is not
\* valid percent-encoding); it has recorded none otherwise, in particular
\* none on not-found and none on a successful delete.
C4_DiagnosticIffLoggedFailure ==
  del.pc = "done" =>
    /\ del.result = "resolved"
    /\ Len(del.diag) <= 1
    /\ (Len(del.diag) = 1 <=>
          \/ StoreFailedOtherwise
          \/ Unparsable(del.imageUrl)
          \/ BadlyEncoded(MarkerSegment(UrlPathname(del.imageUrl))))
    /\ (StoreFailedOtherwise => del.diag = <<StorageError(del.outcome)>>)
    /\ (del.outcome \in {"ok", NotFound} => del.diag = <<>>)

\* C4 witness: the store answered not-found and nothing was recorded
C4_Witness ==
  /\ del.pc = "done"
  /\ del.outcome = NotFound
  /\ del.diag = <<>>
  /\ Len(del.calls) = 1

(***************************************************************************)
(* Properties of uploadImage, checked under SpecUpload.                    *)
(***************************************************************************)
PutCall(c) == [op |-> "uploadBytes", path |-> up[c].path]
UrlCall(c) == [op |-> "getDownloadURL", path |-> up[c].path]

\* C5: uploadImage issues exactly one put for the key and then, only if the
\* put succeeded, exactly one URL resolution for the same key; a failure of
\* either call is the error uploadImage rejects with, nothing is retried,
\* and on success the value returned is the URL the store resolved.
C5_UploadCallSequence ==
  \A c \in Callers :
    LET u == up[c]
    IN  /\ (u.pc = "awaitPut" => u.calls = <<PutCall(c)>>)
        /\ (u.pc = "awaitUrl" => u.calls = <<PutCall(c), UrlCall(c)>> /\ u.putOutcome = "ok")
        /\ (u.pc = "done" =>
              \/ /\ u.putOutcome # "ok"
                 /\ u.calls = <<PutCall(c)>>
                 /\ u.result = [status |-> "rejected", value |-> <<>>,
                                error |-> StorageError(u.putOutcome)]
              \/ /\ u.putOutcome = "ok" /\ u.urlOutcome # "ok"
                 /\ u.calls = <<PutCall(c), UrlCall(c)>>
                 /\ u.result = [status |-> "rejected", value |-> <<>>,
                                error |-> StorageError(u.urlOutcome)]
              \/ /\ u.putOutcome = "ok" /\ u.urlOutcome = "ok"
                 /\ u.calls = <<PutCall(c), UrlCall(c)>>
                 /\ u.result = [status |-> "resolved", value |-> u.storeUrl,
                                error |-> NoError])

\* C5 witness: one caller's put failed, the other's upload returned a URL
C5_Witness ==
  /\ up["c1"].pc = "done" /\ up["c1"].putOutcome = "storage/unauthorized"
  /\ up["c2"].pc = "done" /\ up["c2"].result.status = "resolved"

\* the store holds an object written by caller c
HoldsObjectOf(c) == \E k \in DOMAIN store : store[k] = c

\* C6 as claimed: whenever uploadImage fails, the store holds no object
\* written by that call
C6_Original_NoPartialSuccess ==
  \A c \in Callers :
    (up[c].pc = "done" /\ up[c].result.status = "rejected") => ~HoldsObjectOf(c)

\* C6 amended: uploadImage does have a partial-success state.  When it
\* fails in the write, the store holds no object written by the call; when
\* it fails in the URL resolution, the object it wrote stays in the store
\* at the key (unless a later put of another call for the same key replaced
\* it), and uploadImage makes no call to remove it.
C6_PartialSuccessOnUrlFailure ==
  \A c \in Callers :
    (up[c].pc = "done" /\ up[c].result.status = "rejected") =>
      /\ (up[c].putOutcome # "ok" => ~HoldsObjectOf(c))
      /\ (up[c].putOutcome = "ok" =>
            /\ up[c].path \in DOMAIN store
            /\ \/ store[up[c].path] = c
               \/ \E d \in Callers \ {c} :
                    /\ store[up[c].path] = d
                    /\ up[d].path = up[c].path /\ up[d].putOutcome = "ok")
      /\ \A i \in 1..Len(up[c].calls) :
           up[c].calls[i].op \in {"uploadBytes", "getDownloadURL"}

\* C6 witness: the upload failed in the URL resolution and its object is in
\* the store
C6_Witness ==
  /\ up["c1"].pc = "done"
  /\ up["c1"].result.status = "rejected"
  /\ up["c1"].urlOutcome = "storage/retry-limit-exceeded"
  /\ up["c1"].path \in DOMAIN store
  /\ store[up["c1"].path] = "c1"

\* both calls wrote (their puts succeeded), and to the same store object
WroteSameObject(c, d) ==
  /\ up[c].putOutcome = "ok" /\ up[d].putOutcome = "ok"
  /\ up[c].path = up[d].path

\* C10 as claimed, on calls whose userIds have no '/': two uploadImage
\* calls write to the same store object only when their keys were built
\* with identical inputs in the same millisecond
C10_Original_OnlyIdenticalInputs ==
  \A c, d \in Callers :
    (/\ c # d /\ WroteSameObject(c, d)
     /\ ~HasChar(up[c].userId, "/") /\ ~HasChar(up[d].userId, "/")) =>
      /\ up[c].fn = up[d].fn
      /\ up[c].userId = up[d].userId
      /\ up[c].tattooId = up[d].tattooId
      /\ up[c].fileName = up[d].fileName
      /\ up[c].timestamp = up[d].timestamp

\* C10 amended: two uploadImage calls write to the same store object only
\* when the path builders returned the same key; for userIds without '/'
\* that is when both keys were built by the same builder for the same
\* userId and tattooId in the same millisecond, for file names with the
\* same extension (the file names may differ).  Identical inputs in the
\* same millisecond give the identical key; the store then holds the File
\* of whichever put settled last, and each caller that gets a URL gets the
\* URL of that one key.
C10_SameObjectOnlyFromSameKey ==
  \A c, d \in Callers :
    c # d =>
      /\ (WroteSameObject(c, d) /\ ~HasChar(up[c].userId, "/") /\ ~HasChar(up[d].userId, "/")) =>
            /\ up[c].fn = up[d].fn
            /\ up[c].userId = up[d].userId
            /\ up[c].tattooId = up[d].tattooId
            /\ up[c].timestamp = up[d].timestamp
            /\ AfterLastDot(up[c].fileName) = AfterLastDot(up[d].fileName)
      /\ (/\ up[c].pc # "idle" /\ up[d].pc # "idle"
          /\ up[c].fn = up[d].fn /\ up[c].userId = up[d].userId
          /\ up[c].tattooId = up[d].tattooId /\ up[c].fileName = up[d].fileName
          /\ up[c].timestamp = up[d].timestamp) => up[c].path = up[d].path
      /\ WroteSameObject(c, d) =>
            /\ up[c].path \in DOMAIN store /\ store[up[c].path] \in {c, d}
            /\ (up[c].result.status = "resolved" /\ up[d].result.status = "resolved") =>
                  /\ up[c].result.value = up[d].result.value
                  /\ up[c].result.value = DownloadURL(up[c].path, TokenQuery)

\* C10 witness: two uploads of different files with the same extension,
\* for the same artifact in the same millisecond; both puts succeeded, the
\* second replaced the first, and both callers hold the same URL
C10_Witness ==
  /\ up["c1"].pc = "done" /\ up["c2"].pc = "done"
  /\ up["c1"].fn = "getTattooImagePath" /\ up["c2"].fn = "getTattooImagePath"
  /\ up["c1"].fileName # up["c2"].fileName
  /\ up["c1"].timestamp = up["c2"].timestamp
  /\ up["c1"].path = up["c2"].path
  /\ up["c1"].result.status = "resolved" /\ up["c2"].result.status = "resolved"
  /\ up["c1"].result.value = up["c2"].result.value
  /\ store[up["c1"].path] = "c2"

====
